---- MODULE Spec2Model ----
(***************************************************************************)
(* Model of the AzureAI-RAG pipeline: the sentence chunker                 *)
(* (app/preprocessing/chunker.py), the embedding batch and the local       *)
(* FAISS store (app/embeddings/embedder.py), the retriever                 *)
(* (app/retrieval/retriever.py) and the pipeline driver (main.py).         *)
(*                                                                         *)
(* A text is modelled by the sequence of its whitespace-delimited words,   *)
(* which is what str.split() yields; " ".join(xs) is then the              *)
(* concatenation of the word sequences of xs.                              *)
(***************************************************************************)
EXTENDS Integers, Sequences, FiniteSets, TLC

VARIABLES
    \* ---- chunk_text (chunker.py) ----
    sentences,       \* result of sent_tokenize(text)
    max_tokens,      \* argument max_tokens
    overlap,         \* argument overlap
    pos,             \* position of the for loop over sentences (1-based)
    chunks,          \* list of finished chunks (joined strings)
    current_chunk,   \* accumulator: list of sentences
    current_tokens,  \* running token count
    pc_chunk,        \* "idle" | "loop" | "done"
    \* ---- local FAISS store (embedder.py, retriever.py) ----
    faiss_index,     \* the file faiss.index: [exists, d, xb]
    id_to_chunk,     \* the file id_to_chunk.pkl: [exists, data]
    s_chunks,        \* argument chunks of the latest store_in_local_faiss call that returned
    s_embeddings,    \* argument embeddings of that call
    store_status,    \* how the latest call ended: "none" | "ok" | "IndexError" | "ValueError"
    query_embedding, \* argument of the running search_chunks_local call
    k,               \* argument k of the running search_chunks_local call
    indices,         \* indices[0] as returned by index.search (0-based, -1 padded)
    result,          \* list returned by search_chunks_local
    pc_search,       \* "idle" | "returned"
    \* ---- get_embeddings (embedder.py) ----
    e_chunks,        \* argument chunks: the texts to embed
    use_azure,       \* argument use_azure
    call_outcome,    \* environment: how the provider call for each item ends
    embeddings,      \* the list built by the loop
    idx,             \* position of the for loop (1-based)
    pc_emb,          \* "idle" | "loop" | "done" | "raised"
    \* ---- get_top_k_chunks (retriever.py) ----
    r_query,         \* argument query
    r_k,             \* argument k
    r_use_azure,     \* argument use_azure
    embedding,       \* get_embeddings(chunks=[query], ...)
    search_calls,    \* the calls of search_chunks_local / search_chunks_azure made
    retrieved,       \* the list get_top_k_chunks returns
    pc_retr,         \* "idle" | "called" | "embedded" | "returned" | "raised"
    remote_docs,     \* documents held by the Azure AI Search index
    \* ---- main (main.py) ----
    m_files,         \* the folder extracted/: list of [name, txt, sentences]
    m_query,         \* argument query
    m_use_azure,     \* argument use_azure
    m_chunks,        \* chunks = process_extracted_files(...): list of <<name, chunks>>
    m_embeddings,    \* embeddings = get_embeddings(...)
    answered,        \* generate_answer has been called
    pc_main,         \* position in main
    \* ---- concurrent callers of store_in_local_faiss (embedder.py) ----
    w_pc,            \* per caller: "idle" | "index_written" | "crashed"
    w_chunks         \* per caller: argument chunks of its running call

chunkVars == <<sentences, max_tokens, overlap, pos, chunks, current_chunk,
               current_tokens, pc_chunk>>

indexVars == <<faiss_index, id_to_chunk, s_chunks, s_embeddings, store_status,
               query_embedding, k, indices, result, pc_search>>

embedVars == <<e_chunks, use_azure, call_outcome, embeddings, idx, pc_emb>>

retrVars == <<r_query, r_k, r_use_azure, embedding, search_calls, retrieved,
              pc_retr, remote_docs>>
mainVars == <<m_files, m_query, m_use_azure, m_chunks, m_embeddings, answered, pc_main>>

writerVars == <<w_pc, w_chunks>>

vars == <<chunkVars, indexVars, embedVars, retrVars, mainVars, writerVars>>

otherThanChunk == <<indexVars, embedVars, retrVars, mainVars, writerVars>>
otherThanIndex == <<chunkVars, embedVars, retrVars, mainVars, writerVars>>
otherThanEmbed == <<chunkVars, indexVars, retrVars, mainVars, writerVars>>
otherThanRetr  == <<chunkVars, indexVars, embedVars, mainVars, writerVars>>
otherThanMain  == <<chunkVars, writerVars>>
otherThanStore == <<chunkVars, embedVars, retrVars, mainVars>>

(***************************************************************************)
(* Bounds                                                                  *)
(***************************************************************************)
MaxSents   == 4   \* sentences per input text
MaxWords   == 3   \* words per sentence
MaxTok     == 4   \* largest max_tokens argument tried
MaxOverlap == 2   \* largest overlap argument tried
MaxBatch   == 2   \* entries per store call
MaxDim     == 2   \* largest vector dimension
MaxCoord   == 2   \* largest coordinate of an input vector
MaxK       == 3   \* largest k of a search
MaxTexts   == 3   \* texts per get_embeddings call
MaxWordId  == 2   \* words of the vocabulary of the texts embedded
LocalDim   == 1   \* dimension of the local model's vectors
AzureDim   == 2   \* dimension of the Azure deployment's vectors
MaxFiles   == 2   \* files in the folder extracted/
MaxDocs    == 2   \* documents in the Azure AI Search index

\* defaults of the source
DefaultMaxTokens == 500
DefaultOverlap   == 100
DefaultK         == 3

\* the processes that call store_in_local_faiss on the same directory
Writers == {"A", "B"}

Min(a, b) == IF a < b THEN a ELSE b
Max(a, b) == IF a > b THEN a ELSE b

(***************************************************************************)
(* Python helpers                                                          *)
(***************************************************************************)
\* len(sentence.split()): the whitespace-delimited word count
TokenCount(sentence) == Len(sentence)

\* " ".join(xs) for a list xs of texts
RECURSIVE Join(_)
Join(xs) == IF xs = <<>> THEN <<>> ELSE Head(xs) \o Join(Tail(xs))

\* sum(len(s.split()) for s in xs)
\* mutant: the recount after a split counts sentences, not words
CountSentences(xs) == Len(xs)

RECURSIVE SumTokens(_)
SumTokens(xs) == IF xs = <<>> THEN 0 ELSE TokenCount(Head(xs)) + SumTokens(Tail(xs))

\* xs[-n:] for n >= 0.  In Python -0 == 0, so xs[-0:] is xs[0:], the whole list.
TailSlice(xs, n) ==
    IF n = 0 THEN xs
    ELSE SubSeq(xs, Max(1, Len(xs) - n + 1), Len(xs))

(***************************************************************************)
(* chunk_text: the body of the for loop                                    *)
(***************************************************************************)
\* mutant: the limit is tested before the sentence is counted
FitsBeforeAdding(cur_tokens, token_count, maxTok) == cur_tokens <= maxTok

\* the test "current_tokens + token_count <= max_tokens"
Fits(cur_tokens, token_count, maxTok) == cur_tokens + token_count <= maxTok

\* else-branch: the accumulator after the split
SeedNext(cur_chunk, ov, sentence) == Append(TailSlice(cur_chunk, ov), sentence)

\* one iteration of the loop, on the record [chunks, current_chunk, current_tokens]
ChunkStep(st, sentence, maxTok, ov) ==
    IF Fits(st.current_tokens, TokenCount(sentence), maxTok)
    THEN [chunks         |-> st.chunks,
          current_chunk  |-> Append(st.current_chunk, sentence),
          current_tokens |-> st.current_tokens + TokenCount(sentence)]
    ELSE [chunks         |-> Append(st.chunks, Join(st.current_chunk)),
          current_chunk  |-> SeedNext(st.current_chunk, ov, sentence),
          current_tokens |-> SumTokens(SeedNext(st.current_chunk, ov, sentence))]

\* mutant: the accumulator is not flushed at the end of the input
ChunkFlushNothing(st) == st.chunks

\* the final "if current_chunk: chunks.append(...)"
ChunkFlush(st) ==
    IF st.current_chunk # <<>>
    THEN Append(st.chunks, Join(st.current_chunk))
    ELSE st.chunks

ChunkState == [chunks |-> chunks, current_chunk |-> current_chunk,
               current_tokens |-> current_tokens]

\* the i-th input sentence: n words, each tagged with the sentence's position
Sentence(i, n) == [j \in 1..n |-> i]

\* loop iteration taking the if-branch
ChunkAppend ==
    /\ pc_chunk = "loop"
    /\ pos <= Len(sentences)
    /\ Fits(current_tokens, TokenCount(sentences[pos]), max_tokens)
    /\ LET st == ChunkStep(ChunkState, sentences[pos], max_tokens, overlap) IN
         /\ chunks' = st.chunks
         /\ current_chunk' = st.current_chunk
         /\ current_tokens' = st.current_tokens
    /\ pos' = pos + 1
    /\ UNCHANGED <<sentences, max_tokens, overlap, pc_chunk>>
    /\ UNCHANGED otherThanChunk

\* loop iteration taking the else-branch
ChunkClose ==
    /\ pc_chunk = "loop"
    /\ pos <= Len(sentences)
    /\ ~Fits(current_tokens, TokenCount(sentences[pos]), max_tokens)
    /\ LET st == ChunkStep(ChunkState, sentences[pos], max_tokens, overlap) IN
         /\ chunks' = st.chunks
         /\ current_chunk' = st.current_chunk
         /\ current_tokens' = st.current_tokens
    /\ pos' = pos + 1
    /\ UNCHANGED <<sentences, max_tokens, overlap, pc_chunk>>
    /\ UNCHANGED otherThanChunk

\* end of the loop: flush and return chunks
ChunkReturn ==
    /\ pc_chunk = "loop"
    /\ pos > Len(sentences)
    /\ chunks' = ChunkFlush(ChunkState)
    /\ pc_chunk' = "done"
    /\ UNCHANGED <<sentences, max_tokens, overlap, pos, current_chunk, current_tokens>>
    /\ UNCHANGED otherThanChunk

ChunkNext == ChunkAppend \/ ChunkClose \/ ChunkReturn

(***************************************************************************)
(* Local FAISS store: store_in_local_faiss and search_chunks_local         *)
(***************************************************************************)
\* input vectors: x * (1, ..., 1) in dimension d
Vec(d, x) == [j \in 1..d |-> x]
Vectors == {Vec(d, x) : d \in 1..MaxDim, x \in 0..MaxCoord}

\* the chunk text that goes with an input vector in the batches tried
TextOf(v) == <<"chunk", Len(v), v[1]>>

\* .astype('float32'): rounding to the representable values.  Coordinates are
\* counted in half steps of the float32 grid, so the odd ones are not representable.
F32(x) == 2 * (x \div 2)
ToFloat32(v) == [j \in DOMAIN v |-> F32(v[j])]

\* a Python list of numbers, and the list that holds one such list
FlatList(v) == [nest |-> 1, v |-> v]
BatchOfOne(v) == [nest |-> 2, v |-> v]
NoQuery == [nest |-> 0, v |-> <<>>]

NoIndexFile == [exists |-> FALSE, d |-> 0, xb |-> <<>>]
NoChunkFile == [exists |-> FALSE, kind |-> "list", data |-> <<>>]

\* np.array(embeddings) is a 2-d array only if all rows have one length
Rect(embs) == \A i \in DOMAIN embs : Len(embs[i]) = Len(embs[1])

\* how store_in_local_faiss ends: embeddings[0] of an empty list raises
\* IndexError, a ragged list cannot become a float32 array
StoreLocalStatus(embs) ==
    IF embs = <<>> THEN "IndexError"
    ELSE IF ~Rect(embs) THEN "ValueError"
    ELSE "ok"

\* faiss.IndexFlatL2(dim); index.add(...); faiss.write_index(index, ...)
IndexFileOf(embs) ==
    [exists |-> TRUE, d |-> Len(embs[1]),
     xb |-> [i \in DOMAIN embs |-> ToFloat32(embs[i])]]

\* pickle.dump(chunks, f)
ChunkFileOf(chs, kind) == [exists |-> TRUE, kind |-> kind, data |-> chs]

\* squared L2 distance
RECURSIVE SqDist(_, _)
SqDist(a, b) ==
    IF a = <<>> THEN 0
    ELSE (Head(a) - Head(b)) * (Head(a) - Head(b)) + SqDist(Tail(a), Tail(b))

\* mutant: farthest first
FartherFirst(d1, d2) == d1 >= d2

\* IndexFlatL2 ranks by ascending distance
RankOrder(d1, d2) == d1 <= d2

\* the orders in which index.search may rank the stored vectors (ties in any order)
Rankings(xb, q) ==
    {p \in [1..Len(xb) -> 1..Len(xb)] :
        /\ \A a, b \in 1..Len(xb) : a # b => p[a] # p[b]
        /\ \A a, b \in 1..Len(xb) :
              a < b => RankOrder(SqDist(q, xb[p[a]]), SqDist(q, xb[p[b]]))}

\* the row of labels index.search returns: 0-based, padded with -1 up to k
FaissLabels(p, kk) == [i \in 1..kk |-> IF i <= Len(p) THEN p[i] - 1 ELSE -1]

\* Python list indexing xs[i] with a 0-based, possibly negative i
PyValid(xs, i) == -Len(xs) <= i /\ i < Len(xs)
PyGet(xs, i) == xs[(IF i < 0 THEN i + Len(xs) ELSE i) + 1]

\* the try block of search_chunks_local raises
SearchLocalRaises(index, table, qe, kk) ==
    \/ ~index.exists                 \* faiss.read_index fails
    \/ ~table.exists                 \* open(...) fails
    \/ qe.nest # 1                   \* n, d = x.shape needs a 2-d array
    \/ Len(qe.v) # index.d           \* assert d == self.d
    \/ kk < 1                        \* assert k > 0

\* search_chunks_local, given the ranking p that index.search produces:
\* [raised, indices, result]
SearchLocalRun(index, table, qe, kk, p) ==
    IF SearchLocalRaises(index, table, qe, kk)
    THEN [raised |-> TRUE, indices |-> <<>>, result |-> <<>>]
    ELSE LET I == FaissLabels(p, kk) IN
         IF table.kind # "list" \/ \E i \in 1..kk : ~PyValid(table.data, I[i])
         THEN [raised |-> TRUE, indices |-> I, result |-> <<>>]
         ELSE [raised |-> FALSE, indices |-> I,
               result |-> [i \in 1..kk |-> PyGet(table.data, I[i])]]

\* the rankings to choose from; one dummy when the search raises before ranking
RankingChoices(index, table, qe, kk) ==
    IF SearchLocalRaises(index, table, qe, kk) THEN {<<>>}
    ELSE Rankings(index.xb, ToFloat32(qe.v))

\* the batches tried: each vector with the chunk text that goes with it
ChunksFor(embs) == [i \in DOMAIN embs |-> TextOf(embs[i])]

\* store_in_local_faiss(ChunksFor(embs), embs)
StoreCall(embs) ==
    /\ pc_search = "idle"
    /\ store_status' = StoreLocalStatus(embs)
    /\ IF StoreLocalStatus(embs) = "ok"
       THEN /\ faiss_index' = IndexFileOf(embs)
            /\ id_to_chunk' = ChunkFileOf(ChunksFor(embs), "list")
            /\ s_embeddings' = embs
            /\ s_chunks' = ChunksFor(embs)
       ELSE UNCHANGED <<faiss_index, id_to_chunk, s_chunks, s_embeddings>>
    /\ UNCHANGED <<query_embedding, k, indices, result, pc_search>>
    /\ UNCHANGED otherThanIndex

\* a call of store_in_local_faiss on some batch
StoreLocal == \E n \in 0..MaxBatch : \E embs \in [1..n -> Vectors] : StoreCall(embs)

\* a call search_chunks_local(query_embedding, k), up to its return
SearchLocal ==
    /\ pc_search = "idle"
    /\ \E q \in Vectors, kk \in 1..MaxK :
       \E p \in RankingChoices(faiss_index, id_to_chunk, FlatList(q), kk) :
         LET r == SearchLocalRun(faiss_index, id_to_chunk, FlatList(q), kk, p) IN
         /\ query_embedding' = FlatList(q)
         /\ k' = kk
         /\ indices' = r.indices
         /\ result' = r.result
    /\ pc_search' = "returned"
    /\ UNCHANGED <<faiss_index, id_to_chunk, s_chunks, s_embeddings, store_status>>
    /\ UNCHANGED otherThanIndex

\* the caller has taken the result; the locals of the call are gone
SearchReturn ==
    /\ pc_search = "returned"
    /\ query_embedding' = NoQuery
    /\ k' = 0
    /\ indices' = <<>>
    /\ result' = <<>>
    /\ pc_search' = "idle"
    /\ UNCHANGED <<faiss_index, id_to_chunk, s_chunks, s_embeddings, store_status>>
    /\ UNCHANGED otherThanIndex

IndexNext == StoreLocal \/ SearchLocal \/ SearchReturn



(***************************************************************************)
(* Embedding: get_embedding_local, get_embedding_azure, get_embeddings     *)
(***************************************************************************)
\* a number that identifies a text (words are numbered from 1)
RECURSIVE Code(_)
Code(t) == IF t = <<>> THEN 0 ELSE Head(t) + (MaxWordId + MaxFiles + 1) * Code(Tail(t))

\* local_model.encode(text).tolist(): float32 values, a function of the text
EncodeLocal(text) == Vec(LocalDim, 2 * Code(text))

\* response.data[0].embedding: a function of the text
EncodeAzure(text) == Vec(AzureDim, 2 * Code(text))

\* how the provider behaves for an item: "ok"; "fail" (Azure: the request raises
\* inside the try block; local: the loaded model is falsy); "transient" (as
\* "fail" for the first request for the item, as "ok" for any later one);
\* "raise" (the client or the model cannot be constructed, or encode raises:
\* the exception propagates)
Outcomes == {"ok", "fail", "transient", "raise"}

\* the one request a call makes for its item fails
FirstRequestFails(outcome) == outcome \in {"fail", "transient"}

\* get_embedding_local(text)
get_embedding_local(text, outcome) ==
    IF outcome = "raise" THEN [raised |-> TRUE, emb |-> <<>>]
    ELSE IF FirstRequestFails(outcome) THEN [raised |-> FALSE, emb |-> <<>>]
    ELSE [raised |-> FALSE, emb |-> EncodeLocal(text)]

\* get_embedding_azure(text)
get_embedding_azure(text, outcome) ==
    IF outcome = "raise" THEN [raised |-> TRUE, emb |-> <<>>]
    ELSE IF FirstRequestFails(outcome) THEN [raised |-> FALSE, emb |-> <<>>]
    ELSE [raised |-> FALSE, emb |-> EncodeAzure(text)]

\* the provider call of one loop iteration
EmbedCall(text, azure, outcome) ==
    IF azure THEN get_embedding_azure(text, outcome)
    ELSE get_embedding_local(text, outcome)

\* mutant: a failed item is left out of the list
AppendUnlessEmpty(embs, emb) == IF emb = <<>> THEN embs ELSE Append(embs, emb)

\* embeddings.append(emb)
AppendEmbedding(embs, emb) == Append(embs, emb)

\* get_embeddings as a function: the loop from position i on
RECURSIVE GetEmbeddingsFrom(_, _, _, _, _)
GetEmbeddingsFrom(texts, azure, outcomes, i, acc) ==
    IF i > Len(texts) THEN [raised |-> FALSE, embeddings |-> acc]
    ELSE LET r == EmbedCall(texts[i], azure, outcomes[i]) IN
         IF r.raised THEN [raised |-> TRUE, embeddings |-> acc]
         ELSE GetEmbeddingsFrom(texts, azure, outcomes, i + 1, AppendEmbedding(acc, r.emb))

get_embeddings(texts, azure, outcomes) == GetEmbeddingsFrom(texts, azure, outcomes, 1, <<>>)

\* the texts tried: one or two words of the vocabulary
EmbedTexts == {<<w>> : w \in 1..MaxWordId} \cup {<<w, w>> : w \in 1..MaxWordId}

\* loop iteration on the Azure branch
EmbedAzure ==
    /\ pc_emb = "loop"
    /\ idx <= Len(e_chunks)
    /\ use_azure
    /\ ~EmbedCall(e_chunks[idx], use_azure, call_outcome[idx]).raised
    /\ embeddings' = AppendEmbedding(embeddings,
                        EmbedCall(e_chunks[idx], use_azure, call_outcome[idx]).emb)
    /\ idx' = idx + 1
    /\ UNCHANGED <<e_chunks, use_azure, call_outcome, pc_emb>>
    /\ UNCHANGED otherThanEmbed

\* loop iteration on the local branch
EmbedLocal ==
    /\ pc_emb = "loop"
    /\ idx <= Len(e_chunks)
    /\ ~use_azure
    /\ ~EmbedCall(e_chunks[idx], use_azure, call_outcome[idx]).raised
    /\ embeddings' = AppendEmbedding(embeddings,
                        EmbedCall(e_chunks[idx], use_azure, call_outcome[idx]).emb)
    /\ idx' = idx + 1
    /\ UNCHANGED <<e_chunks, use_azure, call_outcome, pc_emb>>
    /\ UNCHANGED otherThanEmbed

\* the provider call raises outside any try block: get_embeddings is left
EmbedRaise ==
    /\ pc_emb = "loop"
    /\ idx <= Len(e_chunks)
    /\ EmbedCall(e_chunks[idx], use_azure, call_outcome[idx]).raised
    /\ pc_emb' = "raised"
    /\ UNCHANGED <<e_chunks, use_azure, call_outcome, embeddings, idx>>
    /\ UNCHANGED otherThanEmbed

\* return embeddings
EmbedReturn ==
    /\ pc_emb = "loop"
    /\ idx > Len(e_chunks)
    /\ pc_emb' = "done"
    /\ UNCHANGED <<e_chunks, use_azure, call_outcome, embeddings, idx>>
    /\ UNCHANGED otherThanEmbed

EmbedNext == EmbedAzure \/ EmbedLocal \/ EmbedRaise \/ EmbedReturn


(***************************************************************************)
(* Retrieval: search_chunks_azure and get_top_k_chunks                     *)
(***************************************************************************)
\* the value get_top_k_chunks hands to the search: the list get_embeddings
\* returned for the one-element batch [query]
SearchArgument(embs) == BatchOfOne(embs[1])

\* what search_chunks_azure can return: [] when the request raises, else the
\* contents of up to k documents of the index, in the order the service ranks them
AzureAnswers(docs, kk) ==
    {<<>>} \cup
    {[i \in 1..n |-> docs[p[i]].content] :
        n \in 1..Min(kk, Len(docs)),
        p \in {q \in [1..Len(docs) -> 1..Len(docs)] :
                 \A a, b \in 1..Len(docs) : a # b => q[a] # q[b]}}

\* embedding = get_embeddings(chunks=[query], use_azure=use_azure)
RetrEmbed ==
    /\ pc_retr = "called"
    /\ \E o \in Outcomes :
         LET r == get_embeddings(<<r_query>>, r_use_azure, <<o>>) IN
         IF r.raised
         THEN /\ pc_retr' = "raised"
              /\ UNCHANGED embedding
         ELSE /\ pc_retr' = "embedded"
              /\ embedding' = r.embeddings
    /\ UNCHANGED <<r_query, r_k, r_use_azure, search_calls, retrieved, remote_docs>>
    /\ UNCHANGED otherThanRetr

\* return search_chunks_local(embedding, k)
RetrSearchLocal ==
    /\ pc_retr = "embedded"
    /\ ~r_use_azure
    /\ \E p \in RankingChoices(faiss_index, id_to_chunk, SearchArgument(embedding), r_k) :
         retrieved' =
            SearchLocalRun(faiss_index, id_to_chunk, SearchArgument(embedding), r_k, p).result
    /\ search_calls' = Append(search_calls,
                          [backend |-> "local", arg |-> SearchArgument(embedding), k |-> r_k])
    /\ pc_retr' = "returned"
    /\ UNCHANGED <<r_query, r_k, r_use_azure, embedding, remote_docs>>
    /\ UNCHANGED otherThanRetr

\* return search_chunks_azure(embedding, k)
RetrSearchAzure ==
    /\ pc_retr = "embedded"
    /\ r_use_azure
    /\ retrieved' \in AzureAnswers(remote_docs, r_k)
    /\ search_calls' = Append(search_calls,
                          [backend |-> "azure", arg |-> SearchArgument(embedding), k |-> r_k])
    /\ pc_retr' = "returned"
    /\ UNCHANGED <<r_query, r_k, r_use_azure, embedding, remote_docs>>
    /\ UNCHANGED otherThanRetr

RetrNext == RetrEmbed \/ RetrSearchLocal \/ RetrSearchAzure

\* the queries tried
QueryTexts == {<<w>> : w \in 1..MaxWordId}

\* the documents an Azure index can hold at the start: doc-i holds text i
DocOf(i, t) == [id |-> i - 1, content |-> t, embedding |-> EncodeAzure(t)]


(***************************************************************************)
(* The pipeline: process_extracted_files and main                          *)
(***************************************************************************)
\* chunk_text as a function: the loop over the sentences, then the flush
RECURSIVE ChunkLoop(_, _, _, _)
ChunkLoop(st, sents, maxTok, ov) ==
    IF sents = <<>> THEN st
    ELSE ChunkLoop(ChunkStep(st, Head(sents), maxTok, ov), Tail(sents), maxTok, ov)

chunk_text(sents, maxTok, ov) ==
    ChunkFlush(ChunkLoop([chunks |-> <<>>, current_chunk |-> <<>>, current_tokens |-> 0],
                         sents, maxTok, ov))

\* process_extracted_files: the dict filename -> chunks, in listing order
RECURSIVE process_extracted_files(_)
process_extracted_files(files) ==
    IF files = <<>> THEN <<>>
    ELSE (IF Head(files).txt
          THEN <<[key |-> Head(files).name,
                  val |-> chunk_text(Head(files).sentences, DefaultMaxTokens, DefaultOverlap)]>>
          ELSE <<>>)
         \o process_extracted_files(Tail(files))

\* iterating a dict yields its keys
DictKeys(dict) == [i \in DOMAIN dict |-> dict[i].key]

\* the batch store_in_azure_ai_search builds from zip(chunks, embeddings)
AzureBatch(keys, embs) ==
    [i \in 1..Min(Len(keys), Len(embs)) |->
        [id |-> i - 1, content |-> keys[i], embedding |-> embs[i]]]

\* upload_documents: documents replace those of the same id
Upload(docs, batch) ==
    [i \in 1..Max(Len(docs), Len(batch)) |-> IF i <= Len(batch) THEN batch[i] ELSE docs[i]]

\* the name of the i-th file, a one-word text outside the vocabulary of the chunks
FileName(i) == <<MaxWordId + i>>

\* the cleaned and sentence-split contents of a file that are tried
FileContents == {<<>>, <<<<1>>>>, <<<<1>>, <<MaxWordId>>>>}

\* chunks = process_extracted_files(input_folder="extracted/")
MainChunk ==
    /\ pc_main = "start"
    /\ m_chunks' = process_extracted_files(m_files)
    /\ m_files' = SelectSeq(m_files, LAMBDA f : ~f.txt)
    /\ pc_main' = "chunked"
    /\ UNCHANGED <<m_query, m_use_azure, m_embeddings, answered>>
    /\ UNCHANGED <<indexVars, embedVars, retrVars>>
    /\ UNCHANGED otherThanMain

\* get_embeddings(chunks=chunks, use_azure=use_azure) is entered
MainEmbedCall ==
    /\ pc_main = "chunked"
    /\ e_chunks' = DictKeys(m_chunks)
    /\ use_azure' = m_use_azure
    /\ call_outcome' \in [1..Len(m_chunks) -> Outcomes]
    /\ embeddings' = <<>>
    /\ idx' = 1
    /\ pc_emb' = "loop"
    /\ pc_main' = "embedding"
    /\ UNCHANGED <<m_files, m_query, m_use_azure, m_chunks, m_embeddings, answered>>
    /\ UNCHANGED <<indexVars, retrVars>>
    /\ UNCHANGED otherThanMain

\* embeddings = ...; store_embeddings(...) with use_azure false
MainStoreLocal ==
    /\ pc_main = "embedding"
    /\ pc_emb = "done"
    /\ ~m_use_azure
    /\ m_embeddings' = embeddings
    /\ store_status' = StoreLocalStatus(embeddings)
    /\ IF StoreLocalStatus(embeddings) = "ok"
       THEN /\ faiss_index' = IndexFileOf(embeddings)
            /\ id_to_chunk' = ChunkFileOf(m_chunks, "dict")
            /\ s_chunks' = m_chunks
            /\ s_embeddings' = embeddings
            /\ pc_main' = "stored"
       ELSE /\ UNCHANGED <<faiss_index, id_to_chunk, s_chunks, s_embeddings>>
            /\ pc_main' = "failed"
    /\ UNCHANGED <<m_files, m_query, m_use_azure, m_chunks, answered>>
    /\ UNCHANGED <<query_embedding, k, indices, result, pc_search>>
    /\ UNCHANGED <<embedVars, retrVars>>
    /\ UNCHANGED otherThanMain

\* embeddings = ...; store_embeddings(...) with use_azure true
MainStoreAzure ==
    /\ pc_main = "embedding"
    /\ pc_emb = "done"
    /\ m_use_azure
    /\ m_embeddings' = embeddings
    /\ \/ remote_docs' = Upload(remote_docs, AzureBatch(DictKeys(m_chunks), embeddings))
       \/ UNCHANGED remote_docs      \* the upload raises and is logged
    /\ pc_main' = "stored"
    /\ UNCHANGED <<m_files, m_query, m_use_azure, m_chunks, answered>>
    /\ UNCHANGED <<r_query, r_k, r_use_azure, embedding, search_calls, retrieved, pc_retr>>
    /\ UNCHANGED <<indexVars, embedVars>>
    /\ UNCHANGED otherThanMain

\* get_top_k_chunks(query=query, use_azure=use_azure) is entered
MainRetrieveCall ==
    /\ pc_main = "stored"
    /\ r_query' = m_query
    /\ r_k' = DefaultK
    /\ r_use_azure' = m_use_azure
    /\ embedding' = <<>>
    /\ retrieved' = <<>>
    /\ pc_retr' = "called"
    /\ pc_main' = "retrieving"
    /\ UNCHANGED <<search_calls, remote_docs>>
    /\ UNCHANGED <<m_files, m_query, m_use_azure, m_chunks, m_embeddings, answered>>
    /\ UNCHANGED <<indexVars, embedVars>>
    /\ UNCHANGED otherThanMain

\* mutant: the test is "if relevant_chunks is None", which a list never passes
IsNone(relevant_chunks) == FALSE

\* "not relevant_chunks": an empty list is falsy
NotRelevantChunks(relevant_chunks) == relevant_chunks = <<>>

\* "if not relevant_chunks": the warning and the return
MainNoChunks ==
    /\ pc_main = "retrieving"
    /\ pc_retr = "returned"
    /\ NotRelevantChunks(retrieved)
    /\ pc_main' = "ended"
    /\ UNCHANGED <<m_files, m_query, m_use_azure, m_chunks, m_embeddings, answered>>
    /\ UNCHANGED <<indexVars, embedVars, retrVars>>
    /\ UNCHANGED otherThanMain

\* answer = generate_answer(...)
MainGenerate ==
    /\ pc_main = "retrieving"
    /\ pc_retr = "returned"
    /\ ~NotRelevantChunks(retrieved)
    /\ answered' = TRUE
    /\ pc_main' = "answered"
    /\ UNCHANGED <<m_files, m_query, m_use_azure, m_chunks, m_embeddings>>
    /\ UNCHANGED <<indexVars, embedVars, retrVars>>
    /\ UNCHANGED otherThanMain

\* "except Exception as e": an exception of get_embeddings or get_top_k_chunks
MainExcept ==
    /\ \/ pc_main = "embedding" /\ pc_emb = "raised"
       \/ pc_main = "retrieving" /\ pc_retr = "raised"
    /\ pc_main' = "failed"
    /\ UNCHANGED <<m_files, m_query, m_use_azure, m_chunks, m_embeddings, answered>>
    /\ UNCHANGED <<indexVars, embedVars, retrVars>>
    /\ UNCHANGED otherThanMain

MainNext ==
    \/ MainChunk \/ MainEmbedCall \/ MainStoreLocal \/ MainStoreAzure
    \/ MainRetrieveCall \/ MainNoChunks \/ MainGenerate \/ MainExcept
    \/ EmbedNext \/ RetrNext

(***************************************************************************)
(* store_in_local_faiss step by step: the two files are written one after  *)
(* the other, by callers that may run at the same time and may die         *)
(***************************************************************************)
\* the vectors the callers store: float32 vectors of the local model's dimension
WriterVectors == {ToFloat32(Vec(LocalDim, x)) : x \in 0..MaxCoord}

\* the argument pairs tried: each vector comes with its chunk text, and the
\* list of chunks may be shorter than the list of vectors
StoreArgs ==
    {[chunks |-> [i \in 1..Min(m, Len(embs)) |-> TextOf(embs[i])], embeddings |-> embs] :
        embs \in UNION {[1..n -> WriterVectors] : n \in 0..MaxBatch}, m \in 0..MaxBatch}

\* the call raises before it writes anything: len(embeddings[0]) on an empty
\* list, or np.array(...).astype on a ragged one
StoreRaises(w) ==
    /\ w_pc[w] = "idle"
    /\ \E a \in StoreArgs :
         /\ StoreLocalStatus(a.embeddings) # "ok"
         /\ store_status' = StoreLocalStatus(a.embeddings)
    /\ UNCHANGED <<faiss_index, id_to_chunk, s_chunks, s_embeddings>>
    /\ UNCHANGED <<query_embedding, k, indices, result, pc_search>>
    /\ UNCHANGED writerVars
    /\ UNCHANGED otherThanStore

\* the call up to faiss.write_index(index, ".../faiss.index")
StoreWriteIndex(w) ==
    /\ w_pc[w] = "idle"
    /\ \E a \in StoreArgs :
         /\ StoreLocalStatus(a.embeddings) = "ok"
         /\ faiss_index' = IndexFileOf(a.embeddings)
         /\ w_chunks' = [w_chunks EXCEPT ![w] = a.chunks]
    /\ w_pc' = [w_pc EXCEPT ![w] = "index_written"]
    /\ UNCHANGED <<id_to_chunk, s_chunks, s_embeddings, store_status>>
    /\ UNCHANGED <<query_embedding, k, indices, result, pc_search>>
    /\ UNCHANGED otherThanStore

\* pickle.dump(chunks, f) into id_to_chunk.pkl, and the return
StoreWriteChunks(w) ==
    /\ w_pc[w] = "index_written"
    /\ id_to_chunk' = ChunkFileOf(w_chunks[w], "list")
    /\ store_status' = "ok"
    /\ w_pc' = [w_pc EXCEPT ![w] = "idle"]
    /\ w_chunks' = [w_chunks EXCEPT ![w] = <<>>]
    /\ UNCHANGED <<faiss_index, s_chunks, s_embeddings>>
    /\ UNCHANGED <<query_embedding, k, indices, result, pc_search>>
    /\ UNCHANGED otherThanStore

\* the process dies, or open(...) raises, after faiss.index has been written:
\* id_to_chunk.pkl keeps what it held
StoreCrash(w) ==
    /\ w_pc[w] = "index_written"
    /\ w_pc' = [w_pc EXCEPT ![w] = "crashed"]
    /\ w_chunks' = [w_chunks EXCEPT ![w] = <<>>]
    /\ UNCHANGED indexVars
    /\ UNCHANGED otherThanStore

StoreNext ==
    \E w \in Writers :
        StoreRaises(w) \/ StoreWriteIndex(w) \/ StoreWriteChunks(w) \/ StoreCrash(w)

(***************************************************************************)
(* Specifications                                                          *)
(***************************************************************************)
\* chunk_text is called on a bounded sentence sequence
InitChunk ==
    /\ \E n \in 0..MaxSents : \E tc \in [1..n -> 1..MaxWords] :
          sentences = [i \in 1..n |-> Sentence(i, tc[i])]
    /\ max_tokens \in 0..MaxTok
    /\ overlap \in 0..MaxOverlap
    /\ pos = 1
    /\ chunks = <<>>
    /\ current_chunk = <<>>
    /\ current_tokens = 0
    /\ pc_chunk = "loop"
    /\ faiss_index = NoIndexFile /\ id_to_chunk = NoChunkFile
    /\ s_chunks = <<>> /\ s_embeddings = <<>> /\ store_status = "none"
    /\ query_embedding = NoQuery /\ k = 0 /\ indices = <<>> /\ result = <<>>
    /\ pc_search = "idle"
    /\ e_chunks = <<>> /\ use_azure = FALSE /\ call_outcome = <<>>
    /\ embeddings = <<>> /\ idx = 1 /\ pc_emb = "idle"
    /\ r_query = <<>> /\ r_k = 0 /\ r_use_azure = FALSE /\ embedding = <<>>
    /\ search_calls = <<>> /\ retrieved = <<>> /\ pc_retr = "idle" /\ remote_docs = <<>>
    /\ m_files = <<>> /\ m_query = <<>> /\ m_use_azure = FALSE /\ m_chunks = <<>>
    /\ m_embeddings = <<>> /\ answered = FALSE /\ pc_main = "idle"
    /\ w_pc = [w \in Writers |-> "idle"] /\ w_chunks = [w \in Writers |-> <<>>]

SpecChunk == InitChunk /\ [][ChunkNext]_vars

\* store and search calls against one local index directory, empty at first
InitIndex ==
    /\ sentences = <<>> /\ max_tokens = 0 /\ overlap = 0 /\ pos = 1
    /\ chunks = <<>> /\ current_chunk = <<>> /\ current_tokens = 0
    /\ pc_chunk = "idle"
    /\ faiss_index = NoIndexFile /\ id_to_chunk = NoChunkFile
    /\ s_chunks = <<>> /\ s_embeddings = <<>> /\ store_status = "none"
    /\ query_embedding = NoQuery /\ k = 0 /\ indices = <<>> /\ result = <<>>
    /\ pc_search = "idle"
    /\ e_chunks = <<>> /\ use_azure = FALSE /\ call_outcome = <<>>
    /\ embeddings = <<>> /\ idx = 1 /\ pc_emb = "idle"
    /\ r_query = <<>> /\ r_k = 0 /\ r_use_azure = FALSE /\ embedding = <<>>
    /\ search_calls = <<>> /\ retrieved = <<>> /\ pc_retr = "idle" /\ remote_docs = <<>>
    /\ m_files = <<>> /\ m_query = <<>> /\ m_use_azure = FALSE /\ m_chunks = <<>>
    /\ m_embeddings = <<>> /\ answered = FALSE /\ pc_main = "idle"
    /\ w_pc = [w \in Writers |-> "idle"] /\ w_chunks = [w \in Writers |-> <<>>]

SpecIndex == InitIndex /\ [][IndexNext]_vars

\* get_embeddings is called on a bounded list of texts
InitEmbed ==
    /\ \E n \in 0..MaxTexts :
          /\ e_chunks \in [1..n -> EmbedTexts]
          /\ call_outcome \in [1..n -> Outcomes]
    /\ use_azure \in BOOLEAN
    /\ embeddings = <<>>
    /\ idx = 1
    /\ pc_emb = "loop"
    /\ sentences = <<>> /\ max_tokens = 0 /\ overlap = 0 /\ pos = 1
    /\ chunks = <<>> /\ current_chunk = <<>> /\ current_tokens = 0
    /\ pc_chunk = "idle"
    /\ faiss_index = NoIndexFile /\ id_to_chunk = NoChunkFile
    /\ s_chunks = <<>> /\ s_embeddings = <<>> /\ store_status = "none"
    /\ query_embedding = NoQuery /\ k = 0 /\ indices = <<>> /\ result = <<>>
    /\ pc_search = "idle"
    /\ r_query = <<>> /\ r_k = 0 /\ r_use_azure = FALSE /\ embedding = <<>>
    /\ search_calls = <<>> /\ retrieved = <<>> /\ pc_retr = "idle" /\ remote_docs = <<>>
    /\ m_files = <<>> /\ m_query = <<>> /\ m_use_azure = FALSE /\ m_chunks = <<>>
    /\ m_embeddings = <<>> /\ answered = FALSE /\ pc_main = "idle"
    /\ w_pc = [w \in Writers |-> "idle"] /\ w_chunks = [w \in Writers |-> <<>>]

SpecEmbed == InitEmbed /\ [][EmbedNext]_vars

\* get_top_k_chunks is called; the local index directory and the Azure index
\* hold a corpus of up to MaxDocs texts, or nothing
InitRetr ==
    /\ r_query \in QueryTexts
    /\ r_k \in 1..MaxK
    /\ r_use_azure \in BOOLEAN
    /\ embedding = <<>>
    /\ search_calls = <<>>
    /\ retrieved = <<>>
    /\ pc_retr = "called"
    /\ \E n \in 0..MaxDocs : \E corpus \in [1..n -> QueryTexts] :
          /\ remote_docs = [i \in 1..n |-> DocOf(i, corpus[i])]
          /\ faiss_index = IF n = 0 THEN NoIndexFile
                           ELSE IndexFileOf([i \in 1..n |-> EncodeLocal(corpus[i])])
          /\ id_to_chunk = IF n = 0 THEN NoChunkFile ELSE ChunkFileOf(corpus, "list")
    /\ s_chunks = <<>> /\ s_embeddings = <<>> /\ store_status = "none"
    /\ query_embedding = NoQuery /\ k = 0 /\ indices = <<>> /\ result = <<>>
    /\ pc_search = "idle"
    /\ sentences = <<>> /\ max_tokens = 0 /\ overlap = 0 /\ pos = 1
    /\ chunks = <<>> /\ current_chunk = <<>> /\ current_tokens = 0
    /\ pc_chunk = "idle"
    /\ e_chunks = <<>> /\ use_azure = FALSE /\ call_outcome = <<>>
    /\ embeddings = <<>> /\ idx = 1 /\ pc_emb = "idle"
    /\ m_files = <<>> /\ m_query = <<>> /\ m_use_azure = FALSE /\ m_chunks = <<>>
    /\ m_embeddings = <<>> /\ answered = FALSE /\ pc_main = "idle"
    /\ w_pc = [w \in Writers |-> "idle"] /\ w_chunks = [w \in Writers |-> <<>>]

SpecRetr == InitRetr /\ [][RetrNext]_vars

\* main is run on a folder of up to MaxFiles extracted files; the local index
\* directory and the Azure index are empty
InitMain ==
    /\ \E n \in 0..MaxFiles :
       \E order \in {o \in [1..n -> 1..MaxFiles] : \A a, b \in 1..n : a # b => o[a] # o[b]} :
       \E txt \in [1..n -> BOOLEAN], content \in [1..n -> FileContents] :
          m_files = [i \in 1..n |->
                       [name |-> FileName(order[i]), txt |-> txt[i], sentences |-> content[i]]]
    /\ m_query \in QueryTexts
    /\ m_use_azure \in BOOLEAN
    /\ m_chunks = <<>>
    /\ m_embeddings = <<>>
    /\ answered = FALSE
    /\ pc_main = "start"
    /\ sentences = <<>> /\ max_tokens = 0 /\ overlap = 0 /\ pos = 1
    /\ chunks = <<>> /\ current_chunk = <<>> /\ current_tokens = 0
    /\ pc_chunk = "idle"
    /\ faiss_index = NoIndexFile /\ id_to_chunk = NoChunkFile
    /\ s_chunks = <<>> /\ s_embeddings = <<>> /\ store_status = "none"
    /\ query_embedding = NoQuery /\ k = 0 /\ indices = <<>> /\ result = <<>>
    /\ pc_search = "idle"
    /\ e_chunks = <<>> /\ use_azure = FALSE /\ call_outcome = <<>>
    /\ embeddings = <<>> /\ idx = 1 /\ pc_emb = "idle"
    /\ r_query = <<>> /\ r_k = 0 /\ r_use_azure = FALSE /\ embedding = <<>>
    /\ search_calls = <<>> /\ retrieved = <<>> /\ pc_retr = "idle" /\ remote_docs = <<>>
    /\ w_pc = [w \in Writers |-> "idle"] /\ w_chunks = [w \in Writers |-> <<>>]

SpecMain == InitMain /\ [][MainNext]_vars

\* two processes call store_in_local_faiss on one local index directory,
\* empty at first
InitStore ==
    /\ sentences = <<>> /\ max_tokens = 0 /\ overlap = 0 /\ pos = 1
    /\ chunks = <<>> /\ current_chunk = <<>> /\ current_tokens = 0
    /\ pc_chunk = "idle"
    /\ faiss_index = NoIndexFile /\ id_to_chunk = NoChunkFile
    /\ s_chunks = <<>> /\ s_embeddings = <<>> /\ store_status = "none"
    /\ query_embedding = NoQuery /\ k = 0 /\ indices = <<>> /\ result = <<>>
    /\ pc_search = "idle"
    /\ e_chunks = <<>> /\ use_azure = FALSE /\ call_outcome = <<>>
    /\ embeddings = <<>> /\ idx = 1 /\ pc_emb = "idle"
    /\ r_query = <<>> /\ r_k = 0 /\ r_use_azure = FALSE /\ embedding = <<>>
    /\ search_calls = <<>> /\ retrieved = <<>> /\ pc_retr = "idle" /\ remote_docs = <<>>
    /\ m_files = <<>> /\ m_query = <<>> /\ m_use_azure = FALSE /\ m_chunks = <<>>
    /\ m_embeddings = <<>> /\ answered = FALSE /\ pc_main = "idle"
    /\ w_pc = [w \in Writers |-> "idle"] /\ w_chunks = [w \in Writers |-> <<>>]

SpecStore == InitStore /\ [][StoreNext]_vars

(***************************************************************************)
(* Reading a finished chunk: every word carries the position of the        *)
(* sentence it came from, so the sentences of a chunk can be read back     *)
(* from the joined string.                                                 *)
(***************************************************************************)
\* the positions of the sentences a chunk string contains, in order
RECURSIVE SentSeq(_)
SentSeq(ws) ==
    IF ws = <<>> THEN <<>>
    ELSE LET r == SentSeq(Tail(ws)) IN
         IF r # <<>> /\ Head(r) = Head(ws) THEN r ELSE <<Head(ws)>> \o r

SentSet(ws) == {ws[j] : j \in DOMAIN ws}

\* s is a contiguous part of the chunk string
Occurs(s, chunk) ==
    \E a \in 1..(Len(chunk) - Len(s) + 1) : SubSeq(chunk, a, a + Len(s) - 1) = s

\* number of leading words of cur that belong to sentences of prev
OverlapLen(prev, cur) ==
    CHOOSE n \in 0..Len(cur) :
        /\ \A j \in 1..n : cur[j] \in SentSet(prev)
        /\ (n < Len(cur) => cur[n + 1] \notin SentSet(prev))

\* concatenation of the chunks, each after the first without its overlap prefix
RECURSIVE Deoverlap(_, _)
Deoverlap(chs, c) ==
    IF c > Len(chs) THEN <<>>
    ELSE (IF c = 1 THEN chs[c]
          ELSE SubSeq(chs[c], OverlapLen(chs[c - 1], chs[c]) + 1, Len(chs[c])))
         \o Deoverlap(chs, c + 1)

\* sentences of chunk c that are not carried over from chunk c-1
NewSents(c) ==
    SentSet(chunks[c]) \ (IF c = 1 THEN {} ELSE SentSet(chunks[c - 1]))

(***************************************************************************)
(* C7: when chunk_text has returned, every input sentence occurs in at     *)
(* least one chunk, and the chunks without their overlap prefixes          *)
(* concatenate to the input sentences in their original order.             *)
(***************************************************************************)
C7_NoSentenceDropped ==
    pc_chunk = "done" =>
        /\ \A i \in 1..Len(sentences) :
              \E c \in 1..Len(chunks) : Occurs(sentences[i], chunks[c])
        /\ Deoverlap(chunks, 1) = Join(sentences)

\* a finished run with at least three chunks and a real overlap
C7_Witness ==
    /\ pc_chunk = "done"
    /\ Len(chunks) >= 3
    /\ overlap >= 1
    /\ \E c \in 2..Len(chunks) : OverlapLen(chunks[c - 1], chunks[c]) > 0

(***************************************************************************)
(* C8 (as claimed): after a split, chunk c+1 is exactly the last           *)
(* min(overlap, #sentences of chunk c) sentences of chunk c followed by    *)
(* newly added sentences; with overlap = 0 nothing is repeated.            *)
(***************************************************************************)
C8_OverlapIsLastV ==
    pc_chunk = "done" =>
        \A c \in 1..(Len(chunks) - 1) :
            LET p == SentSeq(chunks[c])
                n == SentSeq(chunks[c + 1])
                m == Min(overlap, Len(p))
            IN  /\ Len(n) > m
                /\ SubSeq(n, 1, m) = SubSeq(p, Len(p) - m + 1, Len(p))
                /\ \A j \in (m + 1)..Len(n) : n[j] \notin SentSet(chunks[c])

(***************************************************************************)
(* C9 (as claimed): every chunk has at most max_tokens words unless it     *)
(* consists of exactly one sentence that is itself longer than max_tokens, *)
(* and every such sentence is a chunk of its own.                          *)
(***************************************************************************)
C9_TokenBounded ==
    pc_chunk = "done" =>
        /\ \A c \in 1..Len(chunks) :
              \/ Len(chunks[c]) <= max_tokens
              \/ Len(SentSeq(chunks[c])) = 1
        /\ \A i \in 1..Len(sentences) :
              TokenCount(sentences[i]) > max_tokens =>
                  \E c \in 1..Len(chunks) : chunks[c] = sentences[i]

(***************************************************************************)
(* C9 (amended): every chunk has at most max_tokens words unless exactly   *)
(* one of its sentences is not carried over from the previous chunk, and   *)
(* every sentence longer than max_tokens is the only such new sentence of  *)
(* some chunk.                                                             *)
(***************************************************************************)
C9_TokenBoundedButOverlap ==
    pc_chunk = "done" =>
        /\ \A c \in 1..Len(chunks) :
              \/ Len(chunks[c]) <= max_tokens
              \/ Cardinality(NewSents(c)) = 1
        /\ \A i \in 1..Len(sentences) :
              TokenCount(sentences[i]) > max_tokens =>
                  \E c \in 1..Len(chunks) : NewSents(c) = {i}

\* a finished run with a chunk over the limit that holds overlap sentences too
C9_Witness ==
    /\ pc_chunk = "done"
    /\ \E c \in 1..Len(chunks) :
          /\ Len(chunks[c]) > max_tokens
          /\ Len(SentSeq(chunks[c])) >= 2

(***************************************************************************)
(* Claims about the local index                                            *)
(***************************************************************************)
Distinct(xs) == \A a, b \in DOMAIN xs : a # b => xs[a] # xs[b]

\* the latest store call went through and a search has returned
SearchedAfterStore == pc_search = "returned" /\ store_status = "ok"

(***************************************************************************)
(* C1 (as claimed): after a store of a batch with pairwise distinct        *)
(* vectors, a search with the i-th vector of the batch returns a list      *)
(* whose first element is the i-th chunk of the batch, for any k >= 1.     *)
(***************************************************************************)
C1_RoundTrip ==
    (SearchedAfterStore /\ Distinct(s_embeddings)) =>
        \A i \in DOMAIN s_embeddings :
            query_embedding.v = s_embeddings[i] =>
                result # <<>> /\ result[1] = s_chunks[i]

(***************************************************************************)
(* C1 (amended): the same, for batches whose vectors are pairwise distinct *)
(* after the conversion to float32 that store and search apply.            *)
(***************************************************************************)
C1_RoundTripFloat32 ==
    (SearchedAfterStore /\ Distinct([i \in DOMAIN s_embeddings |-> ToFloat32(s_embeddings[i])])) =>
        \A i \in DOMAIN s_embeddings :
            query_embedding.v = s_embeddings[i] =>
                result # <<>> /\ result[1] = s_chunks[i]

\* a search with the second vector of a stored batch of two has returned its chunk
C1_Witness ==
    /\ SearchedAfterStore
    /\ Len(s_embeddings) >= 2
    /\ Distinct([i \in DOMAIN s_embeddings |-> ToFloat32(s_embeddings[i])])
    /\ query_embedding.v = s_embeddings[2]
    /\ k >= 2
    /\ result # <<>> /\ result[1] = s_chunks[2]

(***************************************************************************)
(* C2 (as claimed): a search on an index of N entries returns min(k, N)    *)
(* chunks and no position of the chunk table twice.                        *)
(***************************************************************************)
C2_AtMostK ==
    (/\ pc_search = "returned"
     /\ ~SearchLocalRaises(faiss_index, id_to_chunk, query_embedding, k)) =>
        /\ Len(result) = Min(k, Len(faiss_index.xb))
        /\ \A a, b \in DOMAIN indices :
              a # b => PyGet([i \in 1..Len(id_to_chunk.data) |-> i], indices[a])
                       # PyGet([i \in 1..Len(id_to_chunk.data) |-> i], indices[b])

(***************************************************************************)
(* C3 (as claimed): a successful store call appends its batch to the       *)
(* persisted index: the vectors and the chunk table afterwards are the     *)
(* ones before followed by the batch.                                      *)
(***************************************************************************)
C3_StoreAppends ==
    [][\A n \in 0..MaxBatch : \A embs \in [1..n -> Vectors] :
          (StoreLocalStatus(embs) = "ok" /\ StoreCall(embs)) =>
              /\ faiss_index'.xb =
                    faiss_index.xb \o [i \in DOMAIN embs |-> ToFloat32(embs[i])]
              /\ id_to_chunk'.data = id_to_chunk.data \o ChunksFor(embs)]_vars

(***************************************************************************)
(* C4 (as claimed): a store call whose vectors have another dimension      *)
(* than the entries the index holds fails with DimensionMismatch and       *)
(* leaves the stored vectors and the chunk table unchanged.                *)
(***************************************************************************)
C4_DimensionMismatch ==
    [][\A n \in 1..MaxBatch : \A embs \in [1..n -> Vectors] :
          (/\ faiss_index.exists
           /\ Rect(embs)
           /\ Len(embs[1]) # faiss_index.d
           /\ StoreCall(embs)) =>
              /\ store_status' = "DimensionMismatch"
              /\ faiss_index' = faiss_index
              /\ id_to_chunk' = id_to_chunk]_vars

(***************************************************************************)
(* C6: when get_embeddings returns, the list has the length of the input   *)
(* and its i-th element is the embedding of the i-th text, or the empty    *)
(* sentinel where the provider call for that item failed; the items after  *)
(* a failed one are still embedded, at their own positions.                *)
(***************************************************************************)
C6_LengthAndOrder ==
    pc_emb = "done" =>
        /\ Len(embeddings) = Len(e_chunks)
        /\ \A i \in 1..Len(e_chunks) :
              embeddings[i] =
                 IF call_outcome[i] # "ok" THEN <<>>
                 ELSE IF use_azure THEN EncodeAzure(e_chunks[i])
                 ELSE EncodeLocal(e_chunks[i])

\* an Azure batch of three has returned: the second call failed, the third did not
C6_Witness ==
    /\ pc_emb = "done"
    /\ use_azure
    /\ Len(e_chunks) = 3
    /\ call_outcome[2] = "fail"
    /\ call_outcome[3] = "ok"
    /\ e_chunks[1] # e_chunks[3]
    /\ embeddings[2] = <<>>
    /\ embeddings[3] = EncodeAzure(e_chunks[3])

(***************************************************************************)
(* Claims about the pipeline and the retriever                             *)
(***************************************************************************)
\* the chunk strings the chunker produced
ChunkStringsOf(dict) ==
    UNION {{dict[i].val[j] : j \in DOMAIN dict[i].val} : i \in DOMAIN dict}

\* main has passed store_embeddings
StoreDone == pc_main \in {"stored", "retrieving", "ended", "answered"}

(***************************************************************************)
(* C5 (as claimed): once main has chunked, embedded and stored, every      *)
(* text handed to the embedding provider is a chunk string of the chunker  *)
(* and the i-th stored vector is the embedding of the i-th entry of the    *)
(* persisted chunk table, which is that chunk string.                      *)
(***************************************************************************)
C5_ChunksAligned ==
    StoreDone =>
        /\ \A i \in 1..Len(e_chunks) : e_chunks[i] \in ChunkStringsOf(m_chunks)
        /\ ~m_use_azure =>
              /\ id_to_chunk.kind = "list"
              /\ Len(id_to_chunk.data) = Len(faiss_index.xb)
              /\ \A i \in 1..Len(id_to_chunk.data) :
                    /\ id_to_chunk.data[i] \in ChunkStringsOf(m_chunks)
                    /\ faiss_index.xb[i] = ToFloat32(EncodeLocal(id_to_chunk.data[i]))
        /\ m_use_azure =>
              \A i \in 1..Len(remote_docs) :
                    /\ remote_docs[i].content \in ChunkStringsOf(m_chunks)
                    /\ remote_docs[i].embedding = EncodeAzure(remote_docs[i].content)

(***************************************************************************)
(* C10 (as claimed): when the embedding of the query is the empty sentinel *)
(* vector, get_top_k_chunks invokes no index search, local or remote, and  *)
(* returns an empty result.                                                *)
(***************************************************************************)
C10_NoSearchOnSentinel ==
    (pc_retr \in {"embedded", "returned"} /\ embedding = << <<>> >>) =>
        /\ search_calls = <<>>
        /\ pc_retr = "returned" => retrieved = <<>>

(***************************************************************************)
(* C11 (as claimed): get_top_k_chunks never leaves by an exception,        *)
(* whatever fails below it (the embedding model cannot be loaded, the      *)
(* embedding call fails, the index files are missing, the remote search    *)
(* is unreachable): it returns a list, possibly empty, of chunk texts of   *)
(* the index.                                                              *)
(***************************************************************************)
C11_ErrorBoundary ==
    /\ pc_retr # "raised"
    /\ pc_retr = "returned" => retrieved \in Seq(QueryTexts)

(***************************************************************************)
(* C12 (as claimed): when the query has been embedded, the value handed    *)
(* to search_chunks_local / search_chunks_azure is the one query vector,   *)
(* and on the local backend with the index files present get_top_k_chunks  *)
(* returns what search_chunks_local returns for that vector: the nearest   *)
(* chunks, not an empty list.                                              *)
(***************************************************************************)
C12_SearchOfEmbeddedQuery ==
    (pc_retr = "returned" /\ embedding[1] # <<>>) =>
        /\ \A c \in 1..Len(search_calls) : search_calls[c].arg = FlatList(embedding[1])
        /\ (~r_use_azure /\ faiss_index.exists /\ id_to_chunk.exists) =>
              /\ retrieved # <<>>
              /\ \E p \in RankingChoices(faiss_index, id_to_chunk,
                                          FlatList(embedding[1]), r_k) :
                    retrieved = SearchLocalRun(faiss_index, id_to_chunk,
                                               FlatList(embedding[1]), r_k, p).result

(***************************************************************************)
(* C13: in every run of main, generate_answer is called only after         *)
(* get_top_k_chunks has returned a non-empty list; when the list returned  *)
(* is empty, main logs the warning and ends, and never calls               *)
(* generate_answer afterwards.                                             *)
(***************************************************************************)
C13_EmptyShortCircuits ==
    /\ [](answered => (pc_retr = "returned" /\ retrieved # <<>>))
    /\ []((pc_main = "retrieving" /\ pc_retr = "returned" /\ retrieved = <<>>) => ~answered)
    /\ [][/\ (~answered /\ answered') => (pc_retr = "returned" /\ retrieved # <<>>)
          /\ (pc_main = "retrieving" /\ pc_retr = "returned" /\ retrieved = <<>>)
                => (pc_main' = "ended" /\ ~answered')
          /\ pc_main = "ended" => (pc_main' = "ended" /\ ~answered')]_vars

\* a local run has stored its index, retrieval returned [] and main has ended
\* without generating
C13_Witness ==
    /\ pc_main = "ended"
    /\ pc_retr = "returned"
    /\ retrieved = <<>>
    /\ faiss_index.exists
    /\ ~answered

(***************************************************************************)
(* Claims about the two files of the local index                           *)
(***************************************************************************)
\* no call of store_in_local_faiss is between its two writes
NoStoreRunning == \A w \in Writers : w_pc[w] # "index_written"

(***************************************************************************)
(* C14 (as claimed): whenever no store call is between its two writes,     *)
(* also after a call has failed or its process has died between them and   *)
(* after calls with len(chunks) # len(embeddings), faiss.index and         *)
(* id_to_chunk.pkl hold the same number of entries and the i-th chunk      *)
(* text is the text of the i-th vector.                                    *)
(***************************************************************************)
C14_NoOrphans ==
    NoStoreRunning =>
        /\ faiss_index.exists = id_to_chunk.exists
        /\ Len(faiss_index.xb) = Len(id_to_chunk.data)
        /\ \A i \in 1..Len(id_to_chunk.data) :
              id_to_chunk.data[i] = TextOf(faiss_index.xb[i])

(***************************************************************************)
(* C15 (as claimed): two store calls on the same directory are             *)
(* serialized: they are never both between their two writes, and when      *)
(* both callers have returned the two files are those that one call        *)
(* writes, not faiss.index of one call and id_to_chunk.pkl of the other.   *)
(***************************************************************************)
C15_SingleWriter ==
    /\ \A v, w \in Writers :
          (w_pc[v] = "index_written" /\ w_pc[w] = "index_written") => v = w
    /\ ((\A w \in Writers : w_pc[w] = "idle") /\ faiss_index.exists) =>
          \E a \in StoreArgs :
             /\ StoreLocalStatus(a.embeddings) = "ok"
             /\ faiss_index = IndexFileOf(a.embeddings)
             /\ id_to_chunk = ChunkFileOf(a.chunks, "list")

(***************************************************************************)
(* C16 (as claimed): a failed Azure embedding request for a batch item is  *)
(* retried, so an item whose first request fails and whose next request    *)
(* would succeed gets its real vector; only an item whose requests all     *)
(* fail gets the empty sentinel vector.                                    *)
(***************************************************************************)
C16_BoundedRetry ==
    (pc_emb = "done" /\ use_azure) =>
        \A i \in 1..Len(e_chunks) :
            /\ call_outcome[i] = "transient" => embeddings[i] = EncodeAzure(e_chunks[i])
            /\ embeddings[i] = <<>> => call_outcome[i] = "fail"

(***************************************************************************)
(* Further claims about chunk_text                                         *)
(***************************************************************************)
\* the first sentence of chunk c that is not carried over from chunk c-1
FirstNewSent(c) == CHOOSE i \in NewSents(c) : \A j \in NewSents(c) : i <= j

(***************************************************************************)
(* C17: at every point of chunk_text the running token count equals the    *)
(* number of words of the sentences in the accumulator, and for any two    *)
(* consecutive chunks the words of the first plus the words of the first   *)
(* sentence of the second that is not overlap exceed max_tokens: a chunk   *)
(* is closed only when the next sentence does not fit.                     *)
(***************************************************************************)
C17_GreedyFill ==
    /\ current_tokens = Len(Join(current_chunk))
    /\ \A c \in 1..(Len(chunks) - 1) :
          /\ NewSents(c + 1) # {}
          /\ Len(chunks[c]) + TokenCount(sentences[FirstNewSent(c + 1)]) > max_tokens

\* a finished run of at least three chunks, one of which was filled with
\* several new sentences, with sentences of several words carried over
C17_Witness ==
    /\ pc_chunk = "done"
    /\ Len(chunks) >= 3
    /\ overlap >= 1
    /\ \E c \in 1..(Len(chunks) - 1) :
          /\ Cardinality(NewSents(c)) >= 2
          /\ OverlapLen(chunks[c], chunks[c + 1]) >= 2

(***************************************************************************)
(* C18 (as claimed): every chunk chunk_text returns is a non-empty string  *)
(* holding at least one sentence, also when the first sentence alone       *)
(* exceeds max_tokens; an empty input gives an empty list.                 *)
(***************************************************************************)
C18_NoEmptyChunk ==
    pc_chunk = "done" =>
        /\ \A c \in 1..Len(chunks) : chunks[c] # <<>>
        /\ sentences = <<>> => chunks = <<>>

====
